---- MODULE Spec2Model ----
(***************************************************************************)
(* safe-rm: a replacement for rm that moves entries into a trash tree.     *)
(*                                                                         *)
(* The model follows the Go sources:                                       *)
(*   internal/protect  Check, isWildcardRoot, isGitPath                    *)
(*   internal/trash    Move, writeMetadata, copyAndDelete, GetMetadata     *)
(*   internal/restore  List, Restore, Purge, Empty, cleanEmptyDirs,        *)
(*                     findTrashItems                                      *)
(*   cmd/rm            processPath                                         *)
(*                                                                         *)
(* A string is a sequence of symbols.  A symbol is a short piece of text   *)
(* that the program never looks inside: "/" is the separator, "*" and "~"  *)
(* are the pattern characters, ".git" and ".saferm-meta" are the literals  *)
(* the code compares against, the other symbols are name fragments.  No    *)
(* name of the model splits into symbols in two ways, so HasPrefix,        *)
(* HasSuffix and equality on symbol sequences agree with the byte-wise     *)
(* functions of package strings.                                           *)
(***************************************************************************)
EXTENDS Integers, Sequences, FiniteSets, TLC

VARIABLES
    fs,        \* the filesystem: absolute clean path |-> node
    now,       \* the wall clock, in ticks
    xdev,      \* TRUE when the trash root is on another volume than the sources
    nextId,    \* content given to the next file the user creates
    movedNow,  \* the paths Move was called on during the current second
    last,      \* the last operation, its arguments and what it returned
    call       \* the arguments of a call that is about to be made

vars == <<fs, now, xdev, nextId, movedNow, last, call>>

-----------------------------------------------------------------------------
(* package strings / path/filepath                                         *)

Sep == "/"

HasPrefix(s, prefix) ==
    /\ Len(prefix) <= Len(s)
    /\ SubSeq(s, 1, Len(prefix)) = prefix

HasSuffix(s, suffix) ==
    /\ Len(suffix) <= Len(s)
    /\ SubSeq(s, Len(s) - Len(suffix) + 1, Len(s)) = suffix

TrimSuffix(s, suffix) ==
    IF HasSuffix(s, suffix) THEN SubSeq(s, 1, Len(s) - Len(suffix)) ELSE s

\* index of the last separator of s, 0 when there is none
RECURSIVE LastSep(_, _)
LastSep(s, i) ==
    IF i = 0 THEN 0
    ELSE IF s[i] = Sep THEN i
    ELSE LastSep(s, i - 1)

\* the elements of s between separators, empty ones included
RECURSIVE Split(_)
Split(s) ==
    LET i == LastSep(s, Len(s)) IN
    IF i = 0 THEN <<s>>
    ELSE Append(Split(SubSeq(s, 1, i - 1)), SubSeq(s, i + 1, Len(s)))

\* elements joined by separators
RECURSIVE JoinElems(_)
JoinElems(elems) ==
    IF elems = <<>> THEN <<>>
    ELSE IF Len(elems) = 1 THEN elems[1]
    ELSE JoinElems(SubSeq(elems, 1, Len(elems) - 1)) \o <<Sep>> \o elems[Len(elems)]

\* Clean's element stack: "." and empty elements are dropped, ".." removes the
\* element before it, is dropped at the root and is kept at the start of a
\* relative path
RECURSIVE CleanElems(_, _, _)
CleanElems(elems, out, rooted) ==
    IF elems = <<>> THEN out
    ELSE LET e == Head(elems) rest == Tail(elems) IN
         IF e = <<>> \/ e = <<".">> THEN CleanElems(rest, out, rooted)
         ELSE IF e = <<"..">> THEN
              IF out # <<>> /\ out[Len(out)] # <<"..">>
              THEN CleanElems(rest, SubSeq(out, 1, Len(out) - 1), rooted)
              ELSE IF rooted THEN CleanElems(rest, out, rooted)
              ELSE CleanElems(rest, Append(out, e), rooted)
         ELSE CleanElems(rest, Append(out, e), rooted)

\* filepath.Clean
Clean(path) ==
    IF path = <<>> THEN <<".">>
    ELSE LET rooted == Head(path) = Sep
             body == JoinElems(CleanElems(Split(path), <<>>, rooted))
         IN  IF rooted THEN <<Sep>> \o body
             ELSE IF body = <<>> THEN <<".">> ELSE body

IsAbs(path) == path # <<>> /\ Head(path) = Sep

\* filepath.Join: the non-empty elements joined by separators, then cleaned
Join(elems) ==
    LET nonEmpty == SelectSeq(elems, LAMBDA e : e # <<>>) IN
    IF nonEmpty = <<>> THEN <<>> ELSE Clean(JoinElems(nonEmpty))

\* filepath.Dir: all but the last element of path, cleaned
Dir(path) ==
    LET i == LastSep(path, Len(path)) IN Clean(SubSeq(path, 1, i))

\* path without its trailing separators
RECURSIVE StripSeps(_)
StripSeps(path) ==
    IF path # <<>> /\ path[Len(path)] = Sep
    THEN StripSeps(SubSeq(path, 1, Len(path) - 1))
    ELSE path

\* filepath.Base: the last element of path
Base(path) ==
    IF path = <<>> THEN <<".">>
    ELSE LET p == StripSeps(path) IN
         IF p = <<>> THEN <<Sep>>
         ELSE SubSeq(p, LastSep(p, Len(p)) + 1, Len(p))

\* filepath.Abs in working directory cwd
Abs(cwd, path) == IF IsAbs(path) THEN Clean(path) ELSE Join(<<cwd, path>>)

\* filepath.Match for patterns of literals and "*": a star matches any
\* sequence of non-separator symbols.  A pattern holding an unclosed "["
\* is malformed; the caller treats the error as no match.
RECURSIVE MatchFrom(_, _)
MatchFrom(pattern, name) ==
    IF pattern = <<>> THEN name = <<>>
    ELSE IF Head(pattern) = "*"
         THEN \/ MatchFrom(Tail(pattern), name)
              \/ /\ name # <<>>
                 /\ Head(name) # Sep
                 /\ MatchFrom(pattern, Tail(name))
         ELSE /\ name # <<>>
              /\ Head(name) = Head(pattern)
              /\ MatchFrom(Tail(pattern), Tail(name))

BadPattern(pattern) == \E i \in 1..Len(pattern) : pattern[i] = "["

\* matched, with err == nil
Match(pattern, name) == ~BadPattern(pattern) /\ MatchFrom(pattern, name)

\* strings.Replace(s, old, new, 1) for a one-symbol old
RECURSIVE ReplaceFirst(_, _, _)
ReplaceFirst(s, old, new) ==
    IF s = <<>> THEN <<>>
    ELSE IF Head(s) = old THEN new \o Tail(s)
    ELSE <<Head(s)>> \o ReplaceFirst(Tail(s), old, new)

-----------------------------------------------------------------------------
(* The filesystem.  fs maps every existing absolute clean path to its node; *)
(* the parent of every path but the root is a directory of fs.              *)

Root == <<Sep>>

DirNode == [kind |-> "dir"]

\* a regular file: data is what it holds, mtime its modification time
FileNode(data, mtime) == [kind |-> "file", data |-> data, mtime |-> mtime]

\* what a user file holds
UserData(id) == [tag |-> "user", id |-> id]

\* what a sidecar holds: the JSON encoding of a trash.Metadata
MetaData(meta) == [tag |-> "meta", meta |-> meta]

Exists(f, path) == path \in DOMAIN f

IsDir(f, path) == Exists(f, path) /\ f[path].kind = "dir"

IsFile(f, path) == Exists(f, path) /\ f[path].kind = "file"

\* path lies strictly below dir
Below(path, dir) ==
    IF dir = Root THEN path # Root /\ HasPrefix(path, Root)
    ELSE HasPrefix(path, dir \o <<Sep>>)

\* the directory holding a clean absolute path
Parent(path) ==
    LET i == LastSep(path, Len(path)) IN
    IF i <= 1 THEN Root ELSE SubSeq(path, 1, i - 1)

\* the paths of the tree rooted at path
Tree(f, path) == {q \in DOMAIN f : q = path \/ Below(q, path)}

\* os.ReadDir: the entries directly in dir
Entries(f, dir) == {q \in DOMAIN f : q # Root /\ Parent(q) = dir}

\* f without the paths in gone
Without(f, gone) == [q \in DOMAIN f \ gone |-> f[q]]

\* f with path set to node
With(f, path, node) ==
    [q \in DOMAIN f \cup {path} |-> IF q = path THEN node ELSE f[q]]

\* a symbolic link to target
LinkNode(target) == [kind |-> "link", target |-> target]

IsLink(f, path) == Exists(f, path) /\ f[path].kind = "link"

\* os.Lstat: err == nil
Lstat(f, path) == Exists(f, path)

\* os.Stat, which follows a symbolic link: err == nil
Stat(f, path) ==
    IF IsLink(f, path) THEN Exists(f, f[path].target) ELSE Exists(f, path)

\* os.ReadFile, which follows a symbolic link
ReadFile(f, path) ==
    LET file == IF IsLink(f, path) THEN f[path].target ELSE path IN
    IF IsFile(f, file) THEN [err |-> FALSE, data |-> f[file].data]
    ELSE [err |-> TRUE, data |-> <<>>]

\* PATH_MAX, in symbols: a longer path gives ENAMETOOLONG
PathMax == 16

\* os.MkdirAll: err is set when path is too long or when path or one of its
\* ancestors is not a directory
RECURSIVE MkdirAll(_, _)
MkdirAll(f, path) ==
    IF Len(path) > PathMax
    THEN [err |-> TRUE, fs |-> f]
    ELSE IF Exists(f, path)
    THEN [err |-> ~IsDir(f, path), fs |-> f]
    ELSE LET up == MkdirAll(f, Parent(path)) IN
         IF up.err THEN up
         ELSE [err |-> FALSE, fs |-> With(up.fs, path, DirNode)]

\* rename(2) on one volume: a file replaces a file, a directory replaces an
\* empty directory, and the tree below src moves with it
RenameAllowed(f, src, dst) ==
    /\ Exists(f, src)
    /\ IsDir(f, Parent(dst))
    /\ ~(dst = src \/ Below(dst, src))
    /\ Exists(f, dst) =>
          IF IsDir(f, src)
          THEN IsDir(f, dst) /\ Entries(f, dst) = {}
          ELSE IsFile(f, dst)

Rebase(q, src, dst) == dst \o SubSeq(q, Len(src) + 1, Len(q))

RenameTree(f, src, dst) ==
    LET moved == Tree(f, src)
        kept  == DOMAIN f \ (moved \cup Tree(f, dst))
        new   == {Rebase(q, src, dst) : q \in moved}
    IN  [q \in kept \cup new |->
            IF q \in new
            THEN f[CHOOSE o \in moved : Rebase(o, src, dst) = q]
            ELSE f[q]]

\* os.WriteFile: creates or truncates the file at path
WriteFile(f, path, data, t) ==
    IF IsDir(f, path) \/ ~IsDir(f, Parent(path))
    THEN [err |-> TRUE, fs |-> f]
    ELSE [err |-> FALSE, fs |-> With(f, path, FileNode(data, t))]

\* os.Remove: a file or an empty directory
Remove(f, path) ==
    IF ~Exists(f, path) \/ Entries(f, path) # {}
    THEN [err |-> TRUE, fs |-> f]
    ELSE [err |-> FALSE, fs |-> Without(f, {path})]

\* os.RemoveAll: path and everything below it; no error when path is absent
RemoveAll(f, path) == Without(f, Tree(f, path))

-----------------------------------------------------------------------------
(* internal/protect                                                        *)

GitName == <<".git">>

\* Status{Protected, Reason}; a reason is its fixed text and the string
\* appended to it
Status(protected, text, arg) ==
    [Protected |-> protected, Reason |-> <<text, arg>>]

NotProtected == Status(FALSE, "", <<>>)

builtinProtectedPaths ==
    << <<Sep>>,
       <<Sep, "bin">>, <<Sep, "boot">>, <<Sep, "dev">>, <<Sep, "etc">>,
       <<Sep, "home">>, <<Sep, "lib">>, <<Sep, "lib", "64">>, <<Sep, "opt">>,
       <<Sep, "proc">>, <<Sep, "root">>, <<Sep, "run">>, <<Sep, "sbin">>,
       <<Sep, "srv">>, <<Sep, "sys">>, <<Sep, "tmp">>, <<Sep, "usr">>,
       <<Sep, "var">> >>

\* the least element of a non-empty set of indexes
First(S) == CHOOSE i \in S : \A j \in S : i <= j

isWildcardRoot(path) == path = <<Sep, "*">> \/ path = <<"\\", "*">>

\* filepath.Glob: the existing paths the pattern matches
Glob(f, pattern) == {q \in DOMAIN f : Match(pattern, q)}

isGitPath(f, absPath) ==
    \/ Base(absPath) = GitName
    \/ Glob(f, Join(<<absPath, GitName>>)) # {}

\* a variant of BuiltinExact that compares only with the trailing separator
BuiltinExactSlash(absPath, protected) == absPath = protected \o <<Sep>>

\* the two tests of the loop over builtinProtectedPaths
BuiltinExact(absPath, protected) ==
    absPath = protected \/ absPath = protected \o <<Sep>>

\* a variant of BuiltinParent with the arguments of HasPrefix exchanged
BuiltinParentBelow(absPath, recursive, protected) ==
    recursive /\ HasPrefix(absPath, protected \o <<Sep>>)

BuiltinParent(absPath, recursive, protected) ==
    recursive /\ HasPrefix(protected, absPath \o <<Sep>>)

\* the pattern after "~" is replaced by filepath.Abs(filepath.Join("~"))
ExpandHome(cwd, pattern) ==
    IF HasPrefix(pattern, <<"~">>)
    THEN ReplaceFirst(pattern, "~", Abs(cwd, Join(<< <<"~">> >>)))
    ELSE pattern

DirSuffix == <<Sep, "*", "*">>

PatternMatches(absPath, pattern) == Match(pattern, absPath)

PatternIsAbove(absPath, pattern) ==
    /\ HasSuffix(pattern, DirSuffix)
    /\ HasPrefix(absPath, TrimSuffix(pattern, DirSuffix))

\* the status of the first user pattern that matches, NotProtected if none
CheckPatterns(cwd, patterns, absPath) ==
    LET expanded == [i \in 1..Len(patterns) |-> ExpandHome(cwd, patterns[i])]
        hits == {i \in 1..Len(patterns) :
                    \/ PatternMatches(absPath, expanded[i])
                    \/ PatternIsAbove(absPath, expanded[i])}
    IN  IF hits = {} THEN NotProtected
        ELSE LET pattern == expanded[First(hits)] IN
             IF PatternMatches(absPath, pattern)
             THEN Status(TRUE, "Path matches protected pattern: ", pattern)
             ELSE Status(TRUE, "Path is under protected directory: ",
                         TrimSuffix(pattern, DirSuffix))

\* the status of the first built-in path that matches, NotProtected if none
CheckBuiltin(absPath, recursive) ==
    LET hits == {i \in 1..Len(builtinProtectedPaths) :
                    \/ BuiltinExact(absPath, builtinProtectedPaths[i])
                    \/ BuiltinParent(absPath, recursive, builtinProtectedPaths[i])}
    IN  IF hits = {} THEN NotProtected
        ELSE LET protected == builtinProtectedPaths[First(hits)] IN
             IF BuiltinExact(absPath, protected)
             THEN Status(TRUE, "System directory is protected: ", protected)
             ELSE Status(TRUE, "Path contains protected system directory: ",
                         protected)

\* a variant of Check that tries the user patterns before the built-in paths
CheckPatternsFirst(f, cwd, patterns, path, recursive) ==
    LET absPath == Clean(path) IN
    IF absPath = <<Sep>> \/ absPath = <<"\\">>
    THEN Status(TRUE, "Root directory is always protected", <<>>)
    ELSE IF isWildcardRoot(absPath)
    THEN Status(TRUE, "Wildcard patterns targeting root level are blocked", <<>>)
    ELSE IF CheckPatterns(cwd, patterns, absPath).Protected
    THEN CheckPatterns(cwd, patterns, absPath)
    ELSE IF CheckBuiltin(absPath, recursive).Protected
    THEN CheckBuiltin(absPath, recursive)
    ELSE IF isGitPath(f, absPath)
    THEN Status(TRUE, ".git directory or repository root is protected", <<>>)
    ELSE NotProtected

\* protect.Check(cfg, absPath, recursive), with cfg.ProtectedPaths = patterns,
\* run in working directory cwd on filesystem f
Check(f, cwd, patterns, path, recursive) ==
    LET absPath == Clean(path) IN
    IF absPath = <<Sep>> \/ absPath = <<"\\">>
    THEN Status(TRUE, "Root directory is always protected", <<>>)
    ELSE IF isWildcardRoot(absPath)
    THEN Status(TRUE, "Wildcard patterns targeting root level are blocked", <<>>)
    ELSE IF CheckBuiltin(absPath, recursive).Protected
    THEN CheckBuiltin(absPath, recursive)
    ELSE IF isGitPath(f, absPath)
    THEN Status(TRUE, ".git directory or repository root is protected", <<>>)
    ELSE CheckPatterns(cwd, patterns, absPath)

-----------------------------------------------------------------------------
(* The clock.  time.Now() is the tick counter; a second and a day are whole *)
(* numbers of ticks.                                                        *)

TicksPerSecond == 1

TicksPerDay == 2

\* time.Now().Format("20060102-150405"), with the "." written before it
Timestamp(t) == "." \o ToString(t \div TicksPerSecond)

-----------------------------------------------------------------------------
(* internal/trash                                                          *)

\* cfg.GetTrashDir()
TrashDir == <<Sep, "T">>

\* os.Hostname()
Hostname == <<"H">>

MetaSuffix == <<".saferm-meta">>

\* trash.Metadata
Metadata(originalPath, deletedAt, hostname, isDirectory) ==
    [OriginalPath |-> originalPath, DeletedAt |-> deletedAt,
     Hostname |-> hostname, IsDirectory |-> isDirectory]

\* writeMetadata: fault is an I/O failure of the write
writeMetadata(f, path, meta, t, fault) ==
    IF fault THEN [err |-> TRUE, fs |-> f]
    ELSE WriteFile(f, path, MetaData(meta), t)

\* GetMetadata: the sidecar of trashPath read and decoded
GetMetadata(f, trashPath) ==
    LET metadataPath == trashPath \o MetaSuffix IN
    IF IsFile(f, metadataPath) /\ f[metadataPath].data.tag = "meta"
    THEN [err |-> FALSE, meta |-> f[metadataPath].data.meta]
    ELSE [err |-> TRUE, meta |-> Metadata(<<>>, 0, <<>>, FALSE)]

\* the order of names in a directory listing
Alphabet ==
    <<"*", ".", "..">>
    \o [i \in 1..20 |-> "." \o ToString(i - 1)]
    \o <<".git", ".saferm-meta", Sep, "64", "H", "T", "a", "c", "d", "f", "g", "l",
         "tmp", "~">>

Rank(sym) ==
    IF \E i \in 1..Len(Alphabet) : Alphabet[i] = sym
    THEN CHOOSE i \in 1..Len(Alphabet) : Alphabet[i] = sym
    ELSE 0

RECURSIVE NameLess(_, _)
NameLess(a, b) ==
    IF b = <<>> THEN FALSE
    ELSE IF a = <<>> THEN TRUE
    ELSE IF Head(a) = Head(b) THEN NameLess(Tail(a), Tail(b))
    ELSE Rank(Head(a)) < Rank(Head(b))

\* the elements of a set of paths of one directory, sorted by name
RECURSIVE Sorted(_)
Sorted(S) ==
    IF S = {} THEN <<>>
    ELSE LET least == CHOOSE p \in S : \A q \in S \ {p} : NameLess(p, q)
         IN  <<least>> \o Sorted(S \ {least})

copyFileAndDelete(f, src, dst, t) ==
    IF ReadFile(f, src).err THEN [err |-> TRUE, fs |-> f]
    ELSE LET written == WriteFile(f, dst, ReadFile(f, src).data, t) IN
         IF written.err THEN [err |-> TRUE, fs |-> f]
         ELSE Remove(written.fs, src)

\* copyDirAndDelete: the loop over the entries stops at the first error and
\* leaves what it has done
RECURSIVE copyDirAndDelete(_, _, _, _)
RECURSIVE copyEntries(_, _, _, _, _)
copyEntries(f, entries, src, dst, t) ==
    IF entries = <<>> THEN [err |-> FALSE, fs |-> f]
    ELSE LET srcPath == Head(entries)
             dstPath == Rebase(srcPath, src, dst)
             one == IF IsDir(f, srcPath)
                    THEN copyDirAndDelete(f, srcPath, dstPath, t)
                    ELSE copyFileAndDelete(f, srcPath, dstPath, t)
         IN  IF one.err THEN one
             ELSE copyEntries(one.fs, Tail(entries), src, dst, t)

copyDirAndDelete(f, src, dst, t) ==
    IF ~Exists(f, src) THEN [err |-> TRUE, fs |-> f]
    ELSE LET made == MkdirAll(f, dst) IN
         IF made.err THEN [err |-> TRUE, fs |-> f]
         ELSE IF ~IsDir(f, src) THEN [err |-> TRUE, fs |-> made.fs]
         ELSE LET copied == copyEntries(made.fs, Sorted(Entries(made.fs, src)),
                                        src, dst, t)
              IN  IF copied.err THEN copied
                  ELSE [err |-> FALSE, fs |-> RemoveAll(copied.fs, src)]

copyAndDelete(f, src, dst, isDir, t) ==
    IF isDir THEN copyDirAndDelete(f, src, dst, t)
    ELSE copyFileAndDelete(f, src, dst, t)

\* os.Rename(src, dst), which fails between volumes
Rename(f, src, dst, crossDevice) ==
    IF crossDevice \/ ~RenameAllowed(f, src, dst)
    THEN [err |-> TRUE, fs |-> f]
    ELSE [err |-> FALSE, fs |-> RenameTree(f, src, dst)]

\* a variant of TrashPathOf that leaves the hostname out
TrashPathOfFlat(absPath) ==
    LET relativePath == IF IsAbs(absPath) /\ Head(absPath) = Sep
                        THEN Tail(absPath) ELSE absPath
    IN  Join(<<TrashDir, relativePath>>)

\* trashDir/hostname/absPath without its leading separator
TrashPathOf(absPath) ==
    LET relativePath == IF IsAbs(absPath) /\ Head(absPath) = Sep
                        THEN Tail(absPath) ELSE absPath
    IN  Join(<<TrashDir, Hostname, relativePath>>)

\* a variant of MoveTarget that never appends the timestamp
MoveTargetFixed(f, absPath, t) == TrashPathOf(absPath)

\* the trash path Move computes for absPath on filesystem f at time t
MoveTarget(f, absPath, t) ==
    IF Stat(f, TrashPathOf(absPath))
    THEN TrashPathOf(absPath) \o <<Timestamp(t)>>
    ELSE TrashPathOf(absPath)

\* a return of Move with an error
MoveFailed(g) == [err |-> TRUE, path |-> <<>>, fs |-> g, warned |-> FALSE]

\* a variant of MoveWritten that returns the error of the sidecar write
MoveWrittenOrFailed(trashPath, wrote) ==
    [err |-> wrote.err, path |-> IF wrote.err THEN <<>> ELSE trashPath,
     fs |-> wrote.fs, warned |-> wrote.err]

\* the return of Move after the sidecar write, whose failure is only a warning
MoveWritten(trashPath, wrote) ==
    [err |-> FALSE, path |-> trashPath, fs |-> wrote.fs, warned |-> wrote.err]

\* Move after the entry was moved: the metadata and its sidecar
MoveRecorded(moved, absPath, trashPath, isDir, t, metaFault) ==
    IF moved.err THEN MoveFailed(moved.fs)
    ELSE MoveWritten(trashPath,
                     writeMetadata(moved.fs, trashPath \o MetaSuffix,
                                   Metadata(absPath, t, Hostname, isDir),
                                   t, metaFault))

\* "if err := os.Rename(...); err != nil": copy and delete
MoveFallback(renamed, g, absPath, trashPath, isDir, t) ==
    IF renamed.err THEN copyAndDelete(g, absPath, trashPath, isDir, t)
    ELSE renamed

\* Move after the parent directory was made
MovePlaced(f, made, absPath, trashPath, isDir, t, crossDevice, metaFault) ==
    IF made.err THEN MoveFailed(f)
    ELSE MoveRecorded(MoveFallback(Rename(made.fs, absPath, trashPath, crossDevice),
                                   made.fs, absPath, trashPath, isDir, t),
                      absPath, trashPath, isDir, t, metaFault)

\* Move once the trash path is chosen
MoveInto(f, absPath, trashPath, t, crossDevice, metaFault) ==
    MovePlaced(f, MkdirAll(f, Dir(trashPath)), absPath, trashPath,
               IsDir(f, absPath), t, crossDevice, metaFault)

\* a variant of Move without the test of os.Lstat
MoveUnchecked(f, absPath, t, crossDevice, metaFault) ==
    MoveInto(f, absPath, MoveTarget(f, absPath, t), t, crossDevice, metaFault)

\* trash.Move(cfg, absPath) at time t: err, the returned path, the filesystem
\* it leaves, and whether the sidecar write failed (the warning)
Move(f, absPath, t, crossDevice, metaFault) ==
    IF ~Lstat(f, absPath) THEN MoveFailed(f)
    ELSE MoveInto(f, absPath, MoveTarget(f, absPath, t), t, crossDevice, metaFault)

-----------------------------------------------------------------------------
(* internal/restore                                                        *)

\* filepath.Walk: root, then the tree of each entry in the order of names.
\* A root that does not exist gives one call with an error, which every
\* callback of this package ignores.
RECURSIVE Walk(_, _)
RECURSIVE WalkEntries(_, _)
WalkEntries(f, entries) ==
    IF entries = <<>> THEN <<>>
    ELSE Walk(f, Head(entries)) \o WalkEntries(f, Tail(entries))

Walk(f, root) ==
    IF ~Exists(f, root) THEN <<>>
    ELSE IF IsDir(f, root) THEN <<root>> \o WalkEntries(f, Sorted(Entries(f, root)))
    ELSE <<root>>

\* a variant of IsTrashItem that does not skip the metadata files
IsTrashItemAnyName(f, trashDir, path) ==
    /\ path # trashDir
    /\ IsDir(f, path) =>
          \A entry \in Entries(f, path) : HasSuffix(Base(entry), MetaSuffix)
    /\ Stat(f, path \o MetaSuffix)

\* the callback of findTrashItems appends path
IsTrashItem(f, trashDir, path) ==
    /\ ~HasSuffix(path, MetaSuffix)
    /\ path # trashDir
    /\ IsDir(f, path) =>
          \A entry \in Entries(f, path) : HasSuffix(Base(entry), MetaSuffix)
    /\ Stat(f, path \o MetaSuffix)

findTrashItems(f, trashDir) ==
    SelectSeq(Walk(f, trashDir), LAMBDA path : IsTrashItem(f, trashDir, path))

\* List: whether it printed "Trash is empty." and the rows it printed
\* a variant of List that returns the error of a missing trash root
ListOfExistingRoot(f) ==
    IF ~Stat(f, TrashDir) THEN [empty |-> FALSE, err |-> TRUE, rows |-> <<>>]
    ELSE [empty |-> findTrashItems(f, TrashDir) = <<>>, err |-> FALSE, rows |-> <<>>]

\* List(cfg): empty when "Trash is empty." is printed, err for the error
\* returned, rows for the lines printed
List(f) ==
    LET items == IF Stat(f, TrashDir) THEN findTrashItems(f, TrashDir) ELSE <<>> IN
    [empty |-> items = <<>>,
     err |-> FALSE,
     rows |-> [i \in 1..Len(items) |->
                 IF GetMetadata(f, items[i]).err
                 THEN [item |-> items[i], known |-> FALSE, original |-> <<>>]
                 ELSE [item |-> items[i], known |-> TRUE,
                       original |-> GetMetadata(f, items[i]).meta.OriginalPath]]]

\* a variant of MatchItem that compares the recorded path by prefix
RECURSIVE MatchItemByPrefix(_, _, _, _)
MatchItemByPrefix(f, items, originalPath, matchedItem) ==
    IF items = <<>> THEN matchedItem
    ELSE LET item == Head(items)
             got == GetMetadata(f, item)
             better ==
                /\ ~got.err
                /\ HasPrefix(got.meta.OriginalPath, originalPath)
                /\ \/ matchedItem = <<>>
                   \/ got.meta.DeletedAt > GetMetadata(f, matchedItem).meta.DeletedAt
         IN  MatchItemByPrefix(f, Tail(items), originalPath,
                               IF better THEN item ELSE matchedItem)

\* the loop of Restore: the item whose sidecar records originalPath, the later
\* DeletedAt winning; <<>> when there is none
RECURSIVE MatchItem(_, _, _, _)
MatchItem(f, items, originalPath, matchedItem) ==
    IF items = <<>> THEN matchedItem
    ELSE LET item == Head(items)
             got == GetMetadata(f, item)
             better ==
                /\ ~got.err
                /\ got.meta.OriginalPath = originalPath
                /\ \/ matchedItem = <<>>
                   \/ got.meta.DeletedAt > GetMetadata(f, matchedItem).meta.DeletedAt
         IN  MatchItem(f, Tail(items), originalPath,
                       IF better THEN item ELSE matchedItem)

\* a variant of Occupied that refuses nothing
OccupiedNever(f, originalPath) == FALSE

\* "if _, err := os.Stat(originalPath); err == nil": the destination exists
Occupied(f, originalPath) == Stat(f, originalPath)

\* Restore(cfg, originalPath): err names the error returned, "" for nil
Restore(f, originalPath, crossDevice) ==
    LET matchedItem == MatchItem(f, findTrashItems(f, TrashDir), originalPath, <<>>)
        result(e, g) == [err |-> e, item |-> matchedItem, fs |-> g]
    IN  IF matchedItem = <<>> THEN result("no item found in trash", f)
        ELSE IF Occupied(f, originalPath) THEN result("destination already exists", f)
        ELSE LET made == MkdirAll(f, Dir(originalPath)) IN
             IF made.err THEN result("failed to create parent directory", f)
             ELSE LET renamed == Rename(made.fs, matchedItem, originalPath, crossDevice) IN
                  IF renamed.err THEN result("failed to restore", made.fs)
                  ELSE result("", Remove(renamed.fs, matchedItem \o MetaSuffix).fs)

\* the loop of Purge over the items: the filesystem left and the count.
\* dirsOld says whether the modification time of a directory is before
\* the cutoff (the model keeps modification times of files only).
\* os.RemoveAll(path) where it fails on the paths in stuck and leaves them
RemoveAllOf(f, path, stuck) ==
    IF path \in stuck THEN [err |-> TRUE, fs |-> f]
    ELSE [err |-> FALSE, fs |-> RemoveAll(f, path)]

RECURSIVE PurgeItems(_, _, _, _, _, _)
PurgeItems(f, items, cutoff, dirsOld, stuck, purged) ==
    IF items = <<>> THEN [fs |-> f, purged |-> purged]
    ELSE LET item == Head(items)
             rest == Tail(items)
             got == GetMetadata(f, item)
         IN  IF got.err
             THEN IF ~Stat(f, item)
                  THEN PurgeItems(f, rest, cutoff, dirsOld, stuck, purged)
                  ELSE IF /\ IF IsDir(f, item) THEN dirsOld
                                               ELSE f[item].mtime < cutoff
                          /\ ~RemoveAllOf(f, item, stuck).err
                  THEN PurgeItems(RemoveAllOf(f, item, stuck).fs, rest, cutoff,
                                  dirsOld, stuck, purged + 1)
                  ELSE PurgeItems(f, rest, cutoff, dirsOld, stuck, purged)
             ELSE IF got.meta.DeletedAt < cutoff /\ ~RemoveAllOf(f, item, stuck).err
                  THEN PurgeItems(Remove(RemoveAllOf(f, item, stuck).fs,
                                         item \o MetaSuffix).fs,
                                  rest, cutoff, dirsOld, stuck, purged + 1)
                  ELSE PurgeItems(f, rest, cutoff, dirsOld, stuck, purged)

\* a variant of Cutoff that adds the days
CutoffAhead(t, days) == t + days * TicksPerDay

\* "cutoff := time.Now().AddDate(0, 0, -days)"
Cutoff(t, days) == t - days * TicksPerDay

\* Purge(cfg, days) at time t
Purge(f, days, t, dirsOld, stuck) ==
    IF ~Stat(f, TrashDir) THEN [fs |-> f, purged |-> 0]
    ELSE PurgeItems(f, findTrashItems(f, TrashDir), Cutoff(t, days), dirsOld,
                    stuck, 0)

\* cleanEmptyDirs: the walk visits a directory before its entries and removes
\* it when it is empty at that moment
RECURSIVE CleanVisited(_, _, _)
CleanVisited(f, visited, dir) ==
    IF visited = <<>> THEN f
    ELSE LET path == Head(visited) IN
         IF IsDir(f, path) /\ path # dir /\ Entries(f, path) = {}
         THEN CleanVisited(Remove(f, path).fs, Tail(visited), dir)
         ELSE CleanVisited(f, Tail(visited), dir)

cleanEmptyDirs(f, dir) == CleanVisited(f, Walk(f, dir), dir)

\* fmt.Scanln(&response): the first space-separated word of the line typed,
\* "" for an empty line
Scanln(line) == IF line = <<>> THEN "" ELSE Head(line)

ConfirmPhrase == "yes I am sure"

\* a variant of EmptyConfirmed that takes every word typed as a confirmation
EmptyConfirmedByAnyWord(response) == response # ""

\* "if response != "yes I am sure"" does not hold
EmptyConfirmed(response) == response = ConfirmPhrase

\* the loop of Empty over the items
RECURSIVE EmptyItems(_, _, _, _)
EmptyItems(f, items, stuck, deleted) ==
    IF items = <<>> THEN [fs |-> f, deleted |-> deleted]
    ELSE IF RemoveAllOf(f, Head(items), stuck).err
    THEN EmptyItems(f, Tail(items), stuck, deleted)
    ELSE EmptyItems(Remove(RemoveAllOf(f, Head(items), stuck).fs,
                           Head(items) \o MetaSuffix).fs,
                    Tail(items), stuck, deleted + 1)

\* Empty(cfg) with line typed at its prompt
Empty(f, line, stuck) ==
    LET items == IF Stat(f, TrashDir) THEN findTrashItems(f, TrashDir) ELSE <<>> IN
    IF items = <<>>
    THEN [fs |-> f, out |-> "Trash is already empty.", deleted |-> 0, response |-> ""]
    ELSE IF ~EmptyConfirmed(Scanln(line))
    THEN [fs |-> f, out |-> "Aborted.", deleted |-> 0, response |-> Scanln(line)]
    ELSE LET done == EmptyItems(f, items, stuck, 0) IN
         [fs |-> cleanEmptyDirs(done.fs, TrashDir), out |-> "Permanently deleted",
          deleted |-> done.deleted, response |-> Scanln(line)]

-----------------------------------------------------------------------------
(* cmd/rm                                                                  *)

\* a variant of IsProtected that lets every path through
IsProtectedNever(status) == FALSE

\* "if status.Protected": the path goes through the protection rules
IsProtected(status) == status.Protected

\* a variant of Confirmed that compares with the first word of the phrase
ConfirmedByWord(response) == response = "yes"

\* the response accepted as the confirmation of a protected path
Confirmed(response) == response = ConfirmPhrase

\* a return of processPath that leaves the path alone
Kept(e, prompted) == [err |-> e, prompted |-> prompted, remove |-> FALSE]

\* a return of processPath through trash.Move
Removes(prompted) == [err |-> "", prompted |-> prompted, remove |-> TRUE]

\* "if opts.Interactive && !opts.Force": the prompt before the removal
interactive(opts, prompted, input) ==
    IF opts.Interactive /\ ~opts.Force
    THEN IF Scanln(input) # "y" /\ Scanln(input) # "yes"
         THEN Kept("", TRUE)
         ELSE Removes(TRUE)
    ELSE Removes(prompted)

\* processPath up to the call of trash.Move
Decision(f, cfg, opts, absPath, line, status) ==
    IF ~Exists(f, absPath)
    THEN IF opts.Force THEN Kept("", FALSE)
         ELSE Kept("No such file or directory", FALSE)
    ELSE IF IsDir(f, absPath) /\ ~opts.Recursive /\ ~opts.RemoveEmptyDirs
    THEN Kept("Is a directory", FALSE)
    ELSE IF IsDir(f, absPath) /\ ~opts.Recursive /\ Entries(f, absPath) # {}
    THEN Kept("Directory not empty", FALSE)
    ELSE IF IsProtected(status)
    THEN IF cfg.ProtectedBehavior = "block"
         THEN Kept("BLOCKED", FALSE)
         ELSE IF ~opts.Force
         THEN IF ~Confirmed(Scanln(line))
              THEN Kept("aborted by user", TRUE)
              ELSE interactive(opts, TRUE, Tail(line))
         ELSE Kept("BLOCKED: Use interactive mode to confirm.", FALSE)
    ELSE interactive(opts, FALSE, line)

\* "trashPath, err := trash.Move(cfg, absPath)" and the return
Outcome(f, status, decision, mv) ==
    IF decision.remove
    THEN [err |-> IF mv.err THEN "failed to move to trash" ELSE "",
          status |-> status, prompted |-> decision.prompted, moved |-> TRUE,
          trashPath |-> mv.path, warned |-> mv.warned, fs |-> mv.fs]
    ELSE [err |-> decision.err, status |-> status, prompted |-> decision.prompted,
          moved |-> FALSE, trashPath |-> <<>>, warned |-> FALSE, fs |-> f]

\* processPath once the path is absolute and checked
Checked(f, cfg, opts, absPath, line, t, crossDevice, status) ==
    Outcome(f, status, Decision(f, cfg, opts, absPath, line, status),
            Move(f, absPath, t, crossDevice, FALSE))

\* processPath(cfg, opts, path) run in cwd at time t with line typed at its
\* prompts: err names the error returned ("" for nil), moved says Move was
\* called, trashPath is what Move returned
processPath(f, cwd, cfg, opts, path, line, t, crossDevice) ==
    Checked(f, cfg, opts, Abs(cwd, path), line, t, crossDevice,
            Check(f, cwd, cfg.ProtectedPaths, Abs(cwd, path), opts.Recursive))

-----------------------------------------------------------------------------
(* The system: a user's files, the clock, and the operations of the tool.   *)

MaxNow == 2

MaxFiles == 2

MaxDays == 1

WorkDir == <<Sep, "a">>

\* the paths the user creates entries at and hands to the tool
F == WorkDir \o <<Sep, "f">>

FM == F \o MetaSuffix

FC == F \o <<Sep, "c">>

Tmp == <<Sep, "tmp">>

UserPaths == {F, FM, FC}

\* cli.Options, the fields processPath reads and --no-preserve-root
Options ==
    [Force : BOOLEAN, Interactive : BOOLEAN, Recursive : BOOLEAN,
     RemoveEmptyDirs : BOOLEAN, NoPreserveRoot : BOOLEAN]

\* config.Config, the fields processPath and Check read
Configs ==
    [ProtectedBehavior : {"block", "confirm", "ask"},
     ProtectedPaths : {<<>>, << WorkDir \o <<Sep, "*">> >>}]

\* the lines an operator types at a prompt, as words
Lines == {<<>>, <<"y">>, <<"yes", "I", "am", "sure">>}

\* the flags of rm -r
PlainOptions ==
    [Force |-> FALSE, Interactive |-> FALSE, Recursive |-> TRUE,
     RemoveEmptyDirs |-> FALSE, NoPreserveRoot |-> FALSE]

DefaultConfig == [ProtectedBehavior |-> "confirm", ProtectedPaths |-> <<>>]

NoCall == [kind |-> "none"]

NoOp == [op |-> "none"]

FsInit == [p \in {Root, WorkDir, Tmp} |-> DirNode]

Second(t) == t \div TicksPerSecond

Init ==
    /\ fs = FsInit
    /\ now = 0
    /\ xdev \in BOOLEAN
    /\ nextId = 1
    /\ movedNow = {}
    /\ last = NoOp
    /\ call = NoCall

\* the user writes a new file at path
UserCreatesFile(path) ==
    /\ now < MaxNow
    /\ nextId <= MaxFiles
    /\ ~Exists(fs, path)
    /\ IsDir(fs, Parent(path))
    /\ fs' = With(fs, path, FileNode(UserData(nextId), now))
    /\ nextId' = nextId + 1
    /\ last' = [op |-> "create"]
    /\ UNCHANGED <<now, xdev, movedNow, call>>

\* the user makes a new directory at path
UserCreatesDir(path) ==
    /\ now < MaxNow
    /\ ~Exists(fs, path)
    /\ IsDir(fs, Parent(path))
    /\ fs' = With(fs, path, DirNode)
    /\ last' = [op |-> "create"]
    /\ UNCHANGED <<now, xdev, nextId, movedNow, call>>

\* the clock moves on by one tick while an operation runs; moved are the
\* paths Move was called on
Later(moved) ==
    /\ now < MaxNow
    /\ now' = now + 1
    /\ movedNow' = IF Second(now + 1) = Second(now)
                   THEN movedNow \cup moved ELSE {}

ClockTicks ==
    /\ Later({})
    /\ UNCHANGED <<fs, xdev, nextId, last, call>>

\* a call of trash.Move
CallMove(path, metaFault) ==
    LET mv == Move(fs, path, now, xdev, metaFault) IN
    /\ Later({path})
    /\ fs' = mv.fs
    /\ last' = [op |-> "Move", path |-> path, err |-> mv.err,
                trashPath |-> mv.path, warned |-> mv.warned]
    /\ UNCHANGED <<xdev, nextId, call>>

\* what a run of rm on one path leaves in last
RmOutcome(cfg, opts, path, line, pp) ==
    [op |-> "processPath", path |-> path, err |-> pp.err,
     protected |-> pp.status.Protected, reason |-> pp.status.Reason,
     behavior |-> cfg.ProtectedBehavior, force |-> opts.Force,
     interactive |-> opts.Interactive,
     prompted |-> pp.prompted, line |-> line,
     moved |-> pp.moved, trashPath |-> pp.trashPath, warned |-> pp.warned]

\* one run of rm on one path
Returned(cfg, opts, path, line, pp) ==
    /\ Later(IF pp.moved THEN {path} ELSE {})
    /\ fs' = pp.fs
    /\ last' = RmOutcome(cfg, opts, path, line, pp)
    /\ UNCHANGED <<xdev, nextId>>

RunProcessPath(cfg, opts, path, line) ==
    Returned(cfg, opts, path, line,
             processPath(fs, WorkDir, cfg, opts, path, line, now, xdev))

CallProcessPath(cfg, opts, path, line) ==
    /\ RunProcessPath(cfg, opts, path, line)
    /\ UNCHANGED call

CallRestore(path) ==
    LET r == Restore(fs, path, xdev) IN
    /\ Later({})
    /\ fs' = r.fs
    /\ last' = [op |-> "Restore", path |-> path, err |-> r.err, item |-> r.item]
    /\ UNCHANGED <<xdev, nextId, call>>

CallPurge(days, dirsOld, stuck) ==
    LET r == Purge(fs, days, now, dirsOld, stuck) IN
    /\ Later({})
    /\ fs' = r.fs
    /\ last' = [op |-> "Purge", days |-> days, stuck |-> stuck,
                purged |-> r.purged]
    /\ UNCHANGED <<xdev, nextId, call>>

\* "PurgeDays: 30, // Default purge days"
DefaultPurgeDays == 30

\* cli.Parse of "--safe-purge" and the arguments "--purge-days=N" given with
\* it, args being their numbers N in order: each one assigns opts.PurgeDays
Parse(args) ==
    [SafePurge |-> TRUE,
     PurgeDays |-> IF args = <<>> THEN DefaultPurgeDays ELSE args[Len(args)]]

\* "RetentionDays: 30" of config.Default
DefaultRetentionDays == 30

\* config.Load: retention_days of the configuration file, when there is one
\* (yaml), and then SAFERM_RETENTION_DAYS, when it is set (env), replace the
\* default
Load(yaml, env) ==
    [RetentionDays |-> IF env # <<>> THEN env[1]
                       ELSE IF yaml # <<>> THEN yaml[1]
                       ELSE DefaultRetentionDays]

\* main on "rm --safe-purge [--purge-days=N]": the case opts.SafePurge
CallSafePurge(args, yaml, env, dirsOld) ==
    LET cfg == Load(yaml, env)
        opts == Parse(args)
        r == Purge(fs, opts.PurgeDays, now, dirsOld, {})
    IN  /\ Later({})
        /\ fs' = r.fs
        /\ last' = [op |-> "Purge", days |-> opts.PurgeDays, stuck |-> {},
                    purged |-> r.purged, args |-> args, cfg |-> cfg,
                    dirsOld |-> dirsOld]
        /\ UNCHANGED <<xdev, nextId, call>>

CallEmpty(line, stuck) ==
    LET r == Empty(fs, line, stuck) IN
    /\ Later({})
    /\ fs' = r.fs
    /\ last' = [op |-> "Empty", line |-> line, stuck |-> stuck, out |-> r.out,
                deleted |-> r.deleted, response |-> r.response]
    /\ UNCHANGED <<xdev, nextId, call>>

CallList ==
    /\ Later({})
    /\ last' = [op |-> "List", empty |-> List(fs).empty, err |-> List(fs).err,
                rows |-> Len(List(fs).rows)]
    /\ UNCHANGED <<fs, xdev, nextId, call>>

Next ==
    \/ \E path \in UserPaths : UserCreatesFile(path)
    \/ UserCreatesDir(F)
    \/ ClockTicks
    \/ \E path \in UserPaths, metaFault \in BOOLEAN : CallMove(path, metaFault)
    \/ \E path \in UserPaths :
          CallProcessPath(DefaultConfig, PlainOptions, path, <<>>)
    \/ \E path \in UserPaths : CallRestore(path)
    \/ \E days \in 0..MaxDays, dirsOld \in BOOLEAN : CallPurge(days, dirsOld, {})
    \/ \E line \in Lines : CallEmpty(line, {})
    \/ CallList

Spec == Init /\ [][Next]_vars

-----------------------------------------------------------------------------
(* One call of protect.Check on arguments drawn from bounded sets.          *)

BuiltinDirs ==
    {builtinProtectedPaths[i] : i \in 2..Len(builtinProtectedPaths)}

\* names of entries below a directory
X == <<"x">>

XY == <<"x", "y">>

SubPaths(dir) ==
    {dir \o <<Sep>> \o X, dir \o <<Sep>> \o XY, dir \o <<Sep>> \o X \o <<Sep, "y">>,
     dir \o <<Sep>> \o GitName, dir \o <<Sep>> \o X \o <<Sep>> \o GitName}

\* the home directory of the caller
Home == <<Sep, "home", Sep, "u">>

\* a directory whose name is a pattern character
Bracket == Tmp \o <<Sep, "[">>

CheckPaths ==
    {Root, <<Sep, Sep>>, <<Sep, "*">>, <<Sep, "home", Sep, "..", Sep, "etc">>,
     <<Sep, "tmp", "x">>, <<Sep, "tmp", Sep, ".">>, <<Sep, "tmp", Sep, X[1], Sep>>,
     Bracket, Home \o <<Sep>> \o X, WorkDir \o <<Sep, "~", Sep>> \o X}
    \cup BuiltinDirs
    \cup {dir \o <<Sep>> : dir \in BuiltinDirs}
    \cup UNION {SubPaths(dir) : dir \in BuiltinDirs \cup {WorkDir}}
    \cup {WorkDir}

PatternLists ==
    {<<>>,
     << <<Sep, "tmp", Sep, "x">> >>,
     << <<Sep, "tmp", Sep, "*">> >>,
     << <<Sep, "home">> \o DirSuffix >>,
     << <<"~", Sep, "x">> >>,
     << <<Sep, "tmp", Sep, "x">> \o DirSuffix >>,
     << <<Sep, "tmp", Sep, "x">> \o DirSuffix, <<Sep, "tmp", Sep, "*">> >>,
     << <<Sep, "tmp", Sep, "[">> >>}

\* the system directories, each holding a directory x, the work directory, the
\* home directory and the directory [ in /tmp; with repositories, each x, [ and
\* the work directory hold a .git directory
CheckFs(repositories) ==
    LET dirs == BuiltinDirs \cup {WorkDir}
        xs == {dir \o <<Sep>> \o X : dir \in dirs} \cup {Bracket}
        gits == IF repositories
                THEN {x \o <<Sep>> \o GitName : x \in xs}
                     \cup {WorkDir \o <<Sep>> \o GitName}
                ELSE {}
    IN  [p \in {Root, Home} \cup dirs \cup xs \cup gits |-> DirNode]

InitCheck ==
    /\ fs \in {CheckFs(FALSE), CheckFs(TRUE)}
    /\ now = 0
    /\ xdev = FALSE
    /\ nextId = 1
    /\ movedNow = {}
    /\ last = NoOp
    /\ call \in [kind : {"Check"}, patterns : PatternLists, path : CheckPaths,
                  recursive : BOOLEAN, cwd : {Root, WorkDir, Home}]

CallCheck ==
    /\ call.kind = "Check"
    /\ last' = [op |-> "Check", patterns |-> call.patterns, path |-> call.path,
                recursive |-> call.recursive, cwd |-> call.cwd,
                status |-> Check(fs, call.cwd, call.patterns, call.path,
                                 call.recursive)]
    /\ call' = NoCall
    /\ UNCHANGED <<fs, now, xdev, nextId, movedNow>>

NextCheck == CallCheck

SpecCheck == InitCheck /\ [][NextCheck]_vars

-----------------------------------------------------------------------------
(* One run of rm on one path, on arguments drawn from bounded sets.          *)

\* a file at F and a file at FM
FsFiles ==
    With(With(FsInit, F, FileNode(UserData(1), 0)), FM, FileNode(UserData(2), 0))

\* a directory at F holding a file
FsTree == With(With(FsInit, F, DirNode), FC, FileNode(UserData(1), 0))

\* the file at F recreated after it was moved to the trash
FsTrashed ==
    With(Move(FsFiles, F, 0, FALSE, FALSE).fs, F, FileNode(UserData(3), 0))

RmPaths == UserPaths \cup {Root, Tmp, WorkDir}

InitRm ==
    /\ fs \in {FsInit, FsFiles, FsTree, FsTrashed}
    /\ now = 0
    /\ xdev = FALSE
    /\ nextId = 1
    /\ movedNow = {}
    /\ last = NoOp
    /\ call \in [kind : {"rm"}, cfg : Configs, opts : Options, path : RmPaths,
                  line : Lines]

CallRm ==
    /\ call.kind = "rm"
    /\ RunProcessPath(call.cfg, call.opts, call.path, call.line)
    /\ call' = NoCall

NextRm == CallRm

SpecRm == InitRm /\ [][NextRm]_vars

-----------------------------------------------------------------------------
(* Restore and Purge on a trash filled before the start: the copies were    *)
(* moved there at times -2 and -1.                                          *)

FileAt(f, path, id, t) == With(f, path, FileNode(UserData(id), t))

\* the file at F was removed
OneCopy(crossDevice) ==
    Move(FileAt(FsInit, F, 1, -2), F, -2, crossDevice, FALSE).fs

\* a file at F was removed twice
TwoCopies(crossDevice) ==
    Move(FileAt(OneCopy(crossDevice), F, 2, -1), F, -1, crossDevice, FALSE).fs

\* a file at F was removed twice and made again
TwoCopiesAndFile(crossDevice) == FileAt(TwoCopies(crossDevice), F, 3, 0)

\* a file at F was removed, then a directory at F holding a file
FileAndTree(crossDevice) ==
    Move(FileAt(With(OneCopy(crossDevice), F, DirNode), FC, 2, -1),
         F, -1, crossDevice, FALSE).fs

\* the file in the directory at F was removed
ChildCopy(crossDevice) ==
    Move(FileAt(With(FsInit, F, DirNode), FC, 1, -2), FC, -2, crossDevice, FALSE).fs

\* the file at F was removed and the write of its sidecar failed
BareCopy(crossDevice) ==
    Move(FileAt(FsInit, F, 1, -2), F, -2, crossDevice, TRUE).fs

\* the content of a sidecar that json.Unmarshal refuses
TornData == [tag |-> "torn"]

\* the file at F was removed and its sidecar does not parse
TornCopy(crossDevice) ==
    With(OneCopy(crossDevice), TrashPathOf(F) \o MetaSuffix, FileNode(TornData, -2))

TrashStates(crossDevice) ==
    {FsInit, OneCopy(crossDevice), TwoCopies(crossDevice),
     TwoCopiesAndFile(crossDevice), FileAndTree(crossDevice),
     ChildCopy(crossDevice), BareCopy(crossDevice), TornCopy(crossDevice)}

InitTrash ==
    /\ xdev \in BOOLEAN
    /\ fs \in TrashStates(xdev)
    /\ now = 0
    /\ nextId = 1
    /\ movedNow = {}
    /\ last = NoOp
    /\ call = NoCall

\* the entries on which os.RemoveAll fails
StuckSets == {{}, {TrashPathOf(F)}}

\* the user takes away what is at path
UserVacates(path) ==
    /\ now < MaxNow
    /\ Exists(fs, path)
    /\ fs' = RemoveAll(fs, path)
    /\ last' = [op |-> "vacate"]
    /\ UNCHANGED <<now, xdev, nextId, movedNow, call>>

\* the numbers of "--purge-days=N" on a command line
PurgeArgs == {<<>>} \cup {<<days>> : days \in 0..MaxDays}

\* retention_days of the configuration file, if any
YamlDays == {<<>>, <<0>>}

\* SAFERM_RETENTION_DAYS, if set
EnvDays == {<<>>, <<MaxDays>>}

NextTrash ==
    \/ \E path \in UserPaths : UserVacates(path)
    \/ ClockTicks
    \/ \E path \in UserPaths : CallRestore(path)
    \/ \E days \in 0..MaxDays, dirsOld \in BOOLEAN, stuck \in StuckSets :
          CallPurge(days, dirsOld, stuck)
    \/ \E args \in PurgeArgs, yaml \in YamlDays, env \in EnvDays,
          dirsOld \in BOOLEAN : CallSafePurge(args, yaml, env, dirsOld)
    \/ \E line \in Lines, stuck \in StuckSets : CallEmpty(line, stuck)
    \/ CallList

SpecTrash == InitTrash /\ [][NextTrash]_vars

-----------------------------------------------------------------------------
(* cleanEmptyDirs on the trash that the loop of Empty leaves when it has    *)
(* removed every item: the directories made for the items, and files that   *)
(* are no items.                                                            *)

HostDir == Join(<<TrashDir, Hostname>>)

\* the directories MkdirAll makes in the trash for the paths removed
LeftDirs ==
    {HostDir, TrashPathOf(WorkDir), TrashPathOf(F), TrashPathOf(FC),
     TrashPathOf(Tmp), TrashPathOf(Tmp \o <<Sep>> \o X),
     TrashPathOf(WorkDir \o <<Sep>> \o X)}

\* files that findTrashItems does not return: an entry without sidecar and a
\* sidecar without entry
LeftFiles ==
    {TrashPathOf(Tmp \o <<Sep>> \o XY), TrashPathOf(F) \o MetaSuffix,
     TrashPathOf(FC) \o MetaSuffix}

LeftFs(dirs, files) ==
    [q \in DOMAIN FsInit \cup {TrashDir} \cup dirs \cup files |->
        IF q \in DOMAIN FsInit THEN FsInit[q]
        ELSE IF q \in files THEN FileNode(TornData, 0)
        ELSE DirNode]

InitClean ==
    /\ \E dirs \in SUBSET LeftDirs, files \in SUBSET LeftFiles :
          /\ \A q \in dirs \cup files : Parent(q) \in dirs \cup {TrashDir}
          /\ fs = LeftFs(dirs, files)
    /\ now = 0
    /\ xdev = FALSE
    /\ nextId = 1
    /\ movedNow = {}
    /\ last = NoOp
    /\ call = [kind |-> "cleanEmptyDirs"]

\* "cleanEmptyDirs(trashDir)" in Empty
CallCleanEmptyDirs ==
    /\ call.kind = "cleanEmptyDirs"
    /\ fs' = cleanEmptyDirs(fs, TrashDir)
    /\ last' = [op |-> "cleanEmptyDirs"]
    /\ call' = NoCall
    /\ UNCHANGED <<now, xdev, nextId, movedNow>>

NextClean == CallCleanEmptyDirs

SpecClean == InitClean /\ [][NextClean]_vars

-----------------------------------------------------------------------------
(* trash.Move step by step: one call, or two calls that run at the same     *)
(* time on two paths.  call.procs[i] is the i-th call: where it is, its     *)
(* local variables, and the copies and removals copyAndDelete has yet to    *)
(* do; call.fs0 is the filesystem at the start.                             *)

G == WorkDir \o <<Sep, "g">>

L == WorkDir \o <<Sep, "l">>

FD == F \o <<Sep, "d">>

FL == F \o <<Sep, "l">>

\* three files and a symbolic link in the work directory
FlatFs ==
    [q \in DOMAIN FsInit \cup {F, FM, G, L} |->
        IF q \in DOMAIN FsInit THEN FsInit[q]
        ELSE IF q = F THEN FileNode(UserData(1), 0)
        ELSE IF q = FM THEN FileNode(UserData(2), 0)
        ELSE IF q = G THEN FileNode(UserData(3), 0)
        ELSE LinkNode(G)]

\* a directory holding two files and a symbolic link to a file outside it
TreeFs ==
    [q \in DOMAIN FsInit \cup {F, FC, FD, FL, G} |->
        IF q \in DOMAIN FsInit THEN FsInit[q]
        ELSE IF q = F THEN DirNode
        ELSE IF q = FC THEN FileNode(UserData(1), 0)
        ELSE IF q = FD THEN FileNode(UserData(2), 0)
        ELSE IF q = G THEN FileNode(UserData(3), 0)
        ELSE LinkNode(G)]

\* the filesystems and the paths of the calls
MoveInputs ==
    {[fs |-> FlatFs, paths |-> <<p>>] : p \in {F, FM, G, L}}
    \cup {[fs |-> FlatFs, paths |-> pq] :
             pq \in {pq \in {F, FM, G} \X {F, FM, G} : pq[1] # pq[2]}}
    \cup {[fs |-> TreeFs, paths |-> <<F>>]}

Proc(absPath) ==
    [pc |-> "Lstat", absPath |-> absPath, isDir |-> FALSE, trashPath |-> <<>>,
     todo |-> <<>>, err |-> FALSE]

InitMove ==
    /\ xdev \in BOOLEAN
    /\ \E input \in MoveInputs :
          /\ fs = input.fs
          /\ call = [kind |-> "Move", fs0 |-> input.fs,
                     procs |-> [i \in 1..Len(input.paths) |-> Proc(input.paths[i])]]
    /\ now = 0
    /\ nextId = 1
    /\ movedNow = {}
    /\ last = NoOp

\* call i is at pc
At(i, pc) == call.kind = "Move" /\ i \in 1..Len(call.procs) /\ call.procs[i].pc = pc

\* call i goes on as proc on filesystem g
Goes(i, proc, g) ==
    /\ fs' = g
    /\ call' = [call EXCEPT !.procs[i] = proc]
    /\ UNCHANGED <<now, xdev, nextId, movedNow, last>>

\* call i returns err
Fails(i, g) == Goes(i, [call.procs[i] EXCEPT !.pc = "returned", !.err = TRUE], g)

\* "info, err := os.Lstat(absPath)"
MoveLstat(i) ==
    /\ At(i, "Lstat")
    /\ IF ~Lstat(fs, call.procs[i].absPath) THEN Fails(i, fs)
       ELSE Goes(i, [call.procs[i] EXCEPT
                        !.pc = "Stat",
                        !.isDir = IsDir(fs, call.procs[i].absPath)], fs)

\* the trash path and "if _, err := os.Stat(trashPath); err == nil"
MoveStat(i) ==
    /\ At(i, "Stat")
    /\ Goes(i, [call.procs[i] EXCEPT
                   !.pc = "MkdirAll",
                   !.trashPath = MoveTarget(fs, call.procs[i].absPath, now)], fs)

\* "os.MkdirAll(trashDir, 0755)"
MoveMkdirAll(i) ==
    /\ At(i, "MkdirAll")
    /\ IF MkdirAll(fs, Dir(call.procs[i].trashPath)).err THEN Fails(i, fs)
       ELSE Goes(i, [call.procs[i] EXCEPT !.pc = "Rename"],
                 MkdirAll(fs, Dir(call.procs[i].trashPath)).fs)

\* a copy that copyAndDelete has yet to do
CopyOf(f, src, dst) ==
    [op |-> IF IsDir(f, src) THEN "dir" ELSE "file", src |-> src, dst |-> dst]

\* "os.Rename(absPath, trashPath)" and, when it fails, the call of
\* copyAndDelete
MoveRename(i) ==
    /\ At(i, "Rename")
    /\ IF Rename(fs, call.procs[i].absPath, call.procs[i].trashPath, xdev).err
       THEN Goes(i, [call.procs[i] EXCEPT
                        !.pc = "copy",
                        !.todo = <<[op |-> IF call.procs[i].isDir
                                           THEN "dir" ELSE "file",
                                    src |-> call.procs[i].absPath,
                                    dst |-> call.procs[i].trashPath]>>], fs)
       ELSE Goes(i, [call.procs[i] EXCEPT !.pc = "writeMetadata"],
                 Rename(fs, call.procs[i].absPath, call.procs[i].trashPath,
                        xdev).fs)

\* call i after a step of copyAndDelete that leaves todo
Copying(i, todo, g) ==
    Goes(i, [call.procs[i] EXCEPT
                !.pc = IF todo = <<>> THEN "writeMetadata" ELSE "copy",
                !.todo = todo], g)

\* copyDirAndDelete up to its loop: the directory is made and read
CopyDir(i) ==
    /\ At(i, "copy")
    /\ Head(call.procs[i].todo).op = "dir"
    /\ LET src == Head(call.procs[i].todo).src
           dst == Head(call.procs[i].todo).dst
       IN  IF ~Stat(fs, src) \/ MkdirAll(fs, dst).err THEN Fails(i, fs)
           ELSE IF ~IsDir(fs, src) THEN Fails(i, MkdirAll(fs, dst).fs)
           ELSE Copying(i, [k \in 1..Cardinality(Entries(fs, src)) |->
                              CopyOf(fs, Sorted(Entries(fs, src))[k],
                                     Rebase(Sorted(Entries(fs, src))[k], src, dst))]
                          \o <<[op |-> "RemoveAll", src |-> src, dst |-> dst]>>
                          \o Tail(call.procs[i].todo),
                       MkdirAll(fs, dst).fs)

\* a variant of CopyWrite that removes the source before it writes
CopyWriteMoved(f, src, dst, t, fault) ==
    IF ReadFile(f, src).err \/ fault = "fails"
    THEN [err |-> TRUE, fs |-> Without(f, {src})]
    ELSE IF fault = "torn"
    THEN [err |-> TRUE, fs |-> With(Without(f, {src}), dst, FileNode(TornData, t))]
    ELSE WriteFile(Without(f, {src}), dst, ReadFile(f, src).data, t)

\* copyFileAndDelete up to os.WriteFile; fault is an I/O failure of the write,
\* which leaves nothing or a part of the file
CopyWrite(f, src, dst, t, fault) ==
    IF ReadFile(f, src).err \/ fault = "fails" THEN [err |-> TRUE, fs |-> f]
    ELSE IF fault = "torn"
    THEN [err |-> TRUE, fs |-> With(f, dst, FileNode(TornData, t))]
    ELSE WriteFile(f, dst, ReadFile(f, src).data, t)

Faults == {"none", "fails", "torn"}

CopyFile(i, fault) ==
    /\ At(i, "copy")
    /\ Head(call.procs[i].todo).op = "file"
    /\ LET src == Head(call.procs[i].todo).src
           dst == Head(call.procs[i].todo).dst
       IN  IF CopyWrite(fs, src, dst, now, fault).err
           THEN Fails(i, CopyWrite(fs, src, dst, now, fault).fs)
           ELSE Copying(i, <<[op |-> "Remove", src |-> src, dst |-> dst]>>
                          \o Tail(call.procs[i].todo),
                       CopyWrite(fs, src, dst, now, fault).fs)

\* "return os.Remove(src)" of copyFileAndDelete
CopyRemove(i) ==
    /\ At(i, "copy")
    /\ Head(call.procs[i].todo).op = "Remove"
    /\ IF Remove(fs, Head(call.procs[i].todo).src).err THEN Fails(i, fs)
       ELSE Copying(i, Tail(call.procs[i].todo),
                   Remove(fs, Head(call.procs[i].todo).src).fs)

\* "return os.RemoveAll(src)" of copyDirAndDelete
CopyRemoveAll(i) ==
    /\ At(i, "copy")
    /\ Head(call.procs[i].todo).op = "RemoveAll"
    /\ Copying(i, Tail(call.procs[i].todo),
              RemoveAll(fs, Head(call.procs[i].todo).src))

\* the sidecar is written and Move returns
MoveWriteMetadata(i) ==
    /\ At(i, "writeMetadata")
    /\ Goes(i, [call.procs[i] EXCEPT !.pc = "returned"],
            writeMetadata(fs, call.procs[i].trashPath \o MetaSuffix,
                          Metadata(call.procs[i].absPath, now, Hostname,
                                   call.procs[i].isDir),
                          now, FALSE).fs)

NextMove ==
    \E i \in 1..2 :
       \/ MoveLstat(i)
       \/ MoveStat(i)
       \/ MoveMkdirAll(i)
       \/ MoveRename(i)
       \/ CopyDir(i)
       \/ \E fault \in Faults : CopyFile(i, fault)
       \/ CopyRemove(i)
       \/ CopyRemoveAll(i)
       \/ MoveWriteMetadata(i)

SpecMove == InitMove /\ [][NextMove]_vars

-----------------------------------------------------------------------------
(* Properties of the trash and of rm, checked under Spec.                  *)

\* a call of trash.Move that returned without error, made directly or by rm
Trashed(l) ==
    \/ l.op = "Move" /\ ~l.err
    \/ l.op = "processPath" /\ l.moved /\ l.err = ""

\* a call of trash.Move, made directly or by rm
Removal(l) == l.op = "Move" \/ l.op = "processPath"

IsUserFile(f, path) ==
    IsFile(f, path) /\ f[path].data.tag = "user"

\* the same kind of entry with the same content
SameEntry(n, m) ==
    /\ n.kind = m.kind
    /\ n.kind = "file" => n.data = m.data

\* the files in the tree at path
FilesIn(f, path) == {q \in Tree(f, path) : IsFile(f, q)}

\* trashRoot/hostname/p, for absolute path p
Location(p) == TrashDir \o <<Sep>> \o Hostname \o p

\* the entries of the trash whose sidecar records original path p
Copies(f, p) ==
    {q \in DOMAIN f : /\ Below(q, TrashDir)
                      /\ ~GetMetadata(f, q).err
                      /\ GetMetadata(f, q).meta.OriginalPath = p}

\* C1: in every step, the content of every user file either is still there
\* afterwards (after a removal: at the same path or in the trash), or it was
\* in the trash and the step is a Purge or an Empty
C1_RemoveNeverDestroys ==
    [][\A p \in DOMAIN fs :
          IsUserFile(fs, p) =>
             \/ /\ \E q \in DOMAIN fs' :
                      /\ IsUserFile(fs', q)
                      /\ fs'[q].data = fs[p].data
                      /\ Removal(last') => (q = p \/ Below(q, TrashDir))
             \/ /\ last'.op \in {"Purge", "Empty"}
                /\ Below(p, TrashDir)]_vars

\* C2: a Restore of p right after a Move of regular file p that returned
\* without error or warning returns nil, puts the file back at p with the
\* content Move left in the trash, and leaves neither the item nor its sidecar
C2_FileRoundTrip ==
    [][(/\ Trashed(last)
        /\ ~last.warned
        /\ IsFile(fs, last.trashPath)
        /\ last'.op = "Restore"
        /\ last'.path = last.path)
       => /\ last'.err = ""
          /\ IsFile(fs', last.path)
          /\ fs'[last.path].data = fs[last.trashPath].data
          /\ ~Exists(fs', last.trashPath)
          /\ ~Exists(fs', last.trashPath \o MetaSuffix)]_vars

\* C3: a Move of a directory holding files puts its whole tree under the
\* returned location, and a Restore of it right after puts the whole tree back
C3_DirectoryRoundTrip ==
    [][/\ (/\ Trashed(last')
           /\ fs' # fs
           /\ IsDir(fs, last'.path)
           /\ FilesIn(fs, last'.path) # {})
          => \A q \in Tree(fs, last'.path) :
                LET r == Rebase(q, last'.path, last'.trashPath) IN
                Exists(fs', r) /\ SameEntry(fs'[r], fs[q])
       /\ (/\ Trashed(last)
           /\ ~last.warned
           /\ IsDir(fs, last.trashPath)
           /\ FilesIn(fs, last.trashPath) # {}
           /\ last'.op = "Restore"
           /\ last'.path = last.path)
          => /\ last'.err = ""
             /\ \A q \in Tree(fs, last.trashPath) :
                   LET r == Rebase(q, last.trashPath, last.path) IN
                   Exists(fs', r) /\ SameEntry(fs'[r], fs[q])]_vars

C5_MoveLocation ==
    [][(/\ Trashed(last')
        /\ fs' # fs
        /\ ~Exists(fs, Location(last'.path)))
       => /\ last'.trashPath = Location(last'.path)
          /\ ~Exists(fs', last'.path)
          /\ Exists(fs', Location(last'.path))
          /\ SameEntry(fs'[Location(last'.path)], fs[last'.path])
          /\ ~last'.warned =>
                LET sidecar == Location(last'.path) \o MetaSuffix IN
                /\ IsFile(fs', sidecar)
                /\ fs'[sidecar].data.tag = "meta"
                /\ fs'[sidecar].data.meta.OriginalPath = last'.path
                /\ fs'[sidecar].data.meta.Hostname = Hostname
                /\ fs'[sidecar].data.meta.IsDirectory = IsDir(fs, last'.path)]_vars

\* a directory moved to its location in the trash, its sidecar written
C5_DirectoryTrashed ==
    /\ Trashed(last)
    /\ ~last.warned
    /\ last.trashPath = Location(last.path)
    /\ IsDir(fs, last.trashPath)
    /\ ~Exists(fs, last.path)
    /\ GetMetadata(fs, last.trashPath).meta.IsDirectory

-----------------------------------------------------------------------------
(* Properties of processPath, checked under SpecRm.                        *)

\* the status Check gives the path of the pending run of rm
CallStatus ==
    Check(fs, WorkDir, call.cfg.ProtectedPaths, Abs(WorkDir, call.path),
          call.opts.Recursive)

\* the path of the pending run exists and, if a directory, may be removed
\* with the flags given: the run gets as far as the protection check
ReachesCheck ==
    /\ Exists(fs, call.path)
    /\ IsDir(fs, call.path) =>
          \/ call.opts.Recursive
          \/ call.opts.RemoveEmptyDirs /\ Entries(fs, call.path) = {}

TypedPhrase == <<"yes", "I", "am", "sure">>

C7_ConfirmationNeeded ==
    [][(/\ call.kind = "rm"
        /\ call.cfg.ProtectedBehavior # "block"
        /\ CallStatus.Protected
        /\ last'.op = "processPath")
       => /\ (last'.moved \/ fs' # fs) => Scanln(call.line) = ConfirmPhrase
          /\ call.opts.Force =>
                /\ fs' = fs
                /\ ~last'.moved
                /\ ~last'.prompted
                /\ ReachesCheck =>
                      last'.err = "BLOCKED: Use interactive mode to confirm."]_vars

\* a protected path kept after another response at the prompt
C7_OtherResponseKeeps ==
    /\ last.op = "processPath"
    /\ last.behavior # "block"
    /\ last.protected
    /\ ~last.force
    /\ last.prompted
    /\ last.line = <<"y">>
    /\ last.err = "aborted by user"
    /\ ~last.moved

\* C8: in confirm mode without -f and -i, a run of rm on a protected path
\* where the operator types the phrase at the prompt moves the path
C8_TypedPhraseAccepted ==
    (/\ last.op = "processPath"
     /\ last.behavior = "confirm"
     /\ last.protected
     /\ ~last.force
     /\ ~last.interactive
     /\ last.prompted
     /\ last.line = TypedPhrase)
    => last.moved /\ last.err = ""

-----------------------------------------------------------------------------
(* Properties of Check, checked under SpecCheck.                           *)

SystemDirs ==
    {<<Sep, "bin">>, <<Sep, "boot">>, <<Sep, "dev">>, <<Sep, "etc">>,
     <<Sep, "home">>, <<Sep, "lib">>, <<Sep, "lib", "64">>, <<Sep, "opt">>,
     <<Sep, "proc">>, <<Sep, "root">>, <<Sep, "run">>, <<Sep, "sbin">>,
     <<Sep, "srv">>, <<Sep, "sys">>, <<Sep, "tmp">>, <<Sep, "usr">>,
     <<Sep, "var">>}

\* C9: Check gives the root and every system directory, with or without a
\* trailing separator, as protected, for both values of recursive and every
\* pattern list
C9_SystemDirsProtected ==
    (/\ last.op = "Check"
     /\ \E dir \in SystemDirs \cup {Root} : last.path \in {dir, dir \o <<Sep>>})
    => last.status.Protected

\* a system directory with a trailing separator, given as protected without
\* the recursive flag
C9_TrailingSeparator ==
    /\ last.op = "Check"
    /\ last.path = Tmp \o <<Sep>>
    /\ ~last.recursive
    /\ last.patterns = <<>>
    /\ last.status.Protected

C11_GitProtected ==
    (/\ last.op = "Check"
     /\ \/ Base(Clean(last.path)) = GitName
        \/ /\ IsDir(fs, Clean(last.path))
           /\ Exists(fs, Clean(last.path) \o <<Sep>> \o GitName))
    => last.status.Protected

\* no rule of Check before the user patterns applies to absPath
NoEarlierRule(absPath, recursive) ==
    /\ absPath # Root
    /\ ~isWildcardRoot(absPath)
    /\ ~CheckBuiltin(absPath, recursive).Protected
    /\ ~isGitPath(fs, absPath)

\* C12: under the one user pattern dir/**, Check gives every path below dir
\* as protected, and a path that is neither dir nor below dir, and to which no
\* other rule applies, as not protected
C12_DirPattern ==
    (/\ last.op = "Check"
     /\ Len(last.patterns) = 1
     /\ HasSuffix(last.patterns[1], DirSuffix)
     /\ Head(last.patterns[1]) = Sep)
    => LET dir == TrimSuffix(last.patterns[1], DirSuffix)
           absPath == Clean(last.path)
       IN  /\ Below(absPath, dir) => last.status.Protected
           /\ (/\ absPath # dir
               /\ ~Below(absPath, dir)
               /\ NoEarlierRule(absPath, last.recursive)
               /\ ~Match(last.patterns[1], absPath))
              => ~last.status.Protected

\* C13: under the user pattern ~/x, Check gives the path x in the home
\* directory as protected, whatever the working directory
C13_HomePattern ==
    (/\ last.op = "Check"
     /\ last.patterns = << <<"~", Sep>> \o X >>
     /\ Clean(last.path) = Home \o <<Sep>> \o X)
    => last.status.Protected

-----------------------------------------------------------------------------
(* Properties of the enumeration of the trash, checked under Spec.         *)

\* the set of the paths findTrashItems returns
Items(f) ==
    LET items == findTrashItems(f, TrashDir) IN {items[i] : i \in 1..Len(items)}

\* C14: findTrashItems returns every entry under the trash root that has a
\* sidecar of its own, a directory that still holds files included
C14_EverySidecarEntryListed ==
    \A q \in DOMAIN fs :
       (Below(q, TrashDir) /\ ~GetMetadata(fs, q).err) => q \in Items(fs)

\* C15: findTrashItems returns neither the trash root, nor a path ending in
\* .saferm-meta, nor an entry with nothing at entry.saferm-meta, nor a
\* directory above another item
C15_OnlySidecarEntriesListed ==
    \A q \in Items(fs) :
       /\ q # TrashDir
       /\ ~HasSuffix(q, MetaSuffix)
       /\ Exists(fs, q \o MetaSuffix)
       /\ \A r \in Items(fs) : ~Below(r, q)

\* a trash with an item under scaffolding directories and with a file that
\* ends in .saferm-meta and has a sidecar, which is not an item
C15_SidecarNameSkipped ==
    /\ Items(fs) # {}
    /\ \E q \in Items(fs) : Parent(q) \notin Items(fs) /\ Parent(q) # TrashDir
    /\ \E q \in DOMAIN fs :
          /\ Below(q, TrashDir)
          /\ HasSuffix(q, MetaSuffix)
          /\ Exists(fs, q \o MetaSuffix)
          /\ q \notin Items(fs)

-----------------------------------------------------------------------------
(* Properties of Restore and Purge, checked under SpecTrash.                *)

\* the step is a call of op (a call that changes nothing and returns what the
\* call before it returned is a step that leaves everything but the clock)
Called(op) == last'.op = op /\ now' # now /\ (last' # last \/ fs' # fs)

DeletedAt(f, q) == GetMetadata(f, q).meta.DeletedAt

\* the copies of p removed last
Newest(f, p) ==
    {q \in Copies(f, p) : \A r \in Copies(f, p) : DeletedAt(f, r) <= DeletedAt(f, q)}

\* the tree at q and the sidecar of q are in g as they are in f
Untouched(f, g, q) ==
    \A x \in Tree(f, q) \cup ({q \o MetaSuffix} \cap DOMAIN f) :
       x \in DOMAIN g /\ g[x] = f[x]

\* the tree at q and the sidecar of q are not in g
Gone(g, q) == Tree(g, q) = {} /\ ~Exists(g, q \o MetaSuffix)

\* C16: a Restore of a free path p of which the trash holds several copies
\* returns nil and moves a copy with the latest DeletedAt back to p, and the
\* other copies and their sidecars stay in the trash as they were
C16_LatestRestoredFirst ==
    [][(/\ Called("Restore")
        /\ \E q, r \in Copies(fs, last'.path) : q # r
        /\ ~Exists(fs, last'.path))
       => \E q \in Newest(fs, last'.path) :
             /\ last'.err = ""
             /\ ~Exists(fs', q)
             /\ Exists(fs', last'.path)
             /\ SameEntry(fs'[last'.path], fs[q])
             /\ \A r \in Copies(fs, last'.path) \ {q} : Untouched(fs, fs', r)]_vars

\* the items of findTrashItems whose sidecar records p
Recorded(f, p) == Items(f) \cap Copies(f, p)

\* C17: a Restore of a path that the sidecar of no item of findTrashItems
\* records returns "no item found in trash" and changes no file
C17_NothingRecorded ==
    [][(Called("Restore") /\ Recorded(fs, last'.path) = {})
       => (last'.err = "no item found in trash" /\ fs' = fs)]_vars

\* a Restore found no item for its path in a trash that holds items
C17_NoMatchAmongItems ==
    /\ last.op = "Restore"
    /\ last.err = "no item found in trash"
    /\ Items(fs) # {}
    /\ Recorded(fs, last.path) = {}

C19_PurgeByAge ==
    [][(Called("Purge") /\ last'.stuck = {})
       => /\ \A q \in Items(fs) :
                ~GetMetadata(fs, q).err
                => IF DeletedAt(fs, q) < now - last'.days * TicksPerDay
                   THEN Gone(fs', q)
                   ELSE Untouched(fs, fs', q)
          /\ \A x \in DOMAIN fs :
                ~Below(x, TrashDir) => (x \in DOMAIN fs' /\ fs'[x] = fs[x])]_vars

\* a Purge removed an item and left a later one
C19_OlderPurgedOnly ==
    /\ last.op = "Purge"
    /\ last.purged > 0
    /\ last.stuck = {}
    /\ \E q \in Items(fs) : ~GetMetadata(fs, q).err

\* file q is in the trash, it is not in a directory that has a sidecar, and
\* nothing is at the place of its sidecar
Bare(f, q) ==
    /\ Below(q, TrashDir)
    /\ IsUserFile(f, q)
    /\ \A r \in DOMAIN f : (r = q \/ Below(q, r)) => ~Exists(f, r \o MetaSuffix)

\* C20: a Purge(days) removes every file of the trash that has no sidecar and
\* whose modification time is before now - days
C20_BareEntryPurged ==
    [][Called("Purge")
       => \A q \in DOMAIN fs :
             (Bare(fs, q) /\ fs[q].mtime < now - last'.days * TicksPerDay)
             => q \notin DOMAIN fs']_vars

-----------------------------------------------------------------------------
(* Properties of Empty and List, checked under SpecTrash.                   *)

\* the words of the confirmation phrase as the operator types them
TypedConfirmPhrase == <<"yes", "I", "am", "sure">>

\* C21: an Empty at whose prompt anything but the confirmation phrase is typed
\* changes no file and reports no deletion
C21_UnconfirmedEmptyKeeps ==
    [][(Called("Empty") /\ last'.line # TypedConfirmPhrase)
       => (fs' = fs /\ last'.deleted = 0 /\ last'.out # "Permanently deleted")]_vars

\* an Empty that found items was answered with "y" and aborted
C21_AbortedWithItems ==
    /\ last.op = "Empty"
    /\ last.line = <<"y">>
    /\ last.out = "Aborted."
    /\ Items(fs) # {}

\* C22: an Empty at whose prompt the confirmation phrase is typed removes every
\* item of findTrashItems and its sidecar
C22_ConfirmedEmptyDeletes ==
    [][(Called("Empty") /\ last'.line = TypedConfirmPhrase)
       => \A q \in Items(fs) : Gone(fs', q)]_vars

\* no file is below the trash root
NothingTrashed(f) == \A q \in DOMAIN f : Below(q, TrashDir) => IsDir(f, q)

\* C24: a List changes no file, and on a trash root that is missing or holds
\* no file it reports the trash as empty, prints no row and returns no error
C24_ListReadsOnly ==
    [][Called("List")
       => /\ fs' = fs
          /\ (~Exists(fs, TrashDir) \/ NothingTrashed(fs))
             => (last'.empty /\ ~last'.err /\ last'.rows = 0)]_vars

\* a List reported a missing trash root as empty
C24_MissingRootEmpty ==
    /\ last.op = "List"
    /\ ~Exists(fs, TrashDir)
    /\ last.empty /\ ~last.err

-----------------------------------------------------------------------------
(* The order of the rules of Check, checked under SpecCheck.                *)

\* the place in the order of the rules of the rule that gives a reason; 6 is
\* the place of "not protected"
RuleOf(text) ==
    CASE text = "Root directory is always protected" -> 1
      [] text = "Wildcard patterns targeting root level are blocked" -> 2
      [] text = "System directory is protected: " -> 3
      [] text = "Path contains protected system directory: " -> 3
      [] text = ".git directory or repository root is protected" -> 4
      [] text = "Path matches protected pattern: " -> 5
      [] text = "Path is under protected directory: " -> 5
      [] OTHER -> 6

BuiltinHits(absPath, recursive) ==
    {i \in 1..Len(builtinProtectedPaths) :
        \/ BuiltinExact(absPath, builtinProtectedPaths[i])
        \/ BuiltinParent(absPath, recursive, builtinProtectedPaths[i])}

PatternHits(cwd, patterns, absPath) ==
    {i \in 1..Len(patterns) :
        \/ PatternMatches(absPath, ExpandHome(cwd, patterns[i]))
        \/ PatternIsAbove(absPath, ExpandHome(cwd, patterns[i]))}

\* the places of the rules that match the call
MatchingRules(f, l) ==
    LET absPath == Clean(l.path) IN
    {6} \cup (IF absPath = Root THEN {1} ELSE {})
        \cup (IF isWildcardRoot(absPath) THEN {2} ELSE {})
        \cup (IF BuiltinHits(absPath, l.recursive) # {} THEN {3} ELSE {})
        \cup (IF isGitPath(f, absPath) THEN {4} ELSE {})
        \cup (IF PatternHits(l.cwd, l.patterns, absPath) # {} THEN {5} ELSE {})

\* C25: the reason Check returns is the reason of the first rule, in the order
\* root, wildcard root, built-in paths, .git, user patterns, that matches; a
\* built-in reason names the first built-in path that matches and a pattern
\* reason the first pattern of the list that matches
C25_FirstRuleWins ==
    last.op = "Check"
    => LET absPath == Clean(last.path)
           rule == RuleOf(last.status.Reason[1])
       IN  /\ rule = First(MatchingRules(fs, last))
           /\ last.status.Protected <=> rule # 6
           /\ rule = 3
              => last.status.Reason[2] =
                    builtinProtectedPaths[First(BuiltinHits(absPath, last.recursive))]
           /\ rule = 5
              => LET pattern == ExpandHome(last.cwd,
                                   last.patterns[First(PatternHits(last.cwd,
                                                        last.patterns, absPath))])
                 IN  last.status.Reason[2] \in {pattern, TrimSuffix(pattern, DirSuffix)}

\* a system directory that a user pattern matches as well is given the
\* built-in reason
C25_BuiltinBeforePattern ==
    /\ last.op = "Check"
    /\ BuiltinHits(Clean(last.path), last.recursive) # {}
    /\ PatternHits(last.cwd, last.patterns, Clean(last.path)) # {}
    /\ last.status.Reason[1] = "System directory is protected: "

-----------------------------------------------------------------------------
(* Properties of Purge, checked under SpecTrash.                            *)

\* C26: after a Purge, no item of findTrashItems that the Purge removed has
\* left its sidecar behind, whether the sidecar parses or not
C26_SidecarPurgedToo ==
    [][Called("Purge")
       => \A q \in Items(fs) :
             ~Exists(fs', q) => ~Exists(fs', q \o MetaSuffix)]_vars

\* the number of items of findTrashItems in f that are not in g
Deleted(f, g) == Cardinality({q \in Items(f) : ~Exists(g, q)})

\* what a Purge does when os.RemoveAll fails on the items in last'.stuck
PurgeTolerant ==
    Called("Purge")
    => /\ \A q \in Items(fs) :
             ~GetMetadata(fs, q).err
             => IF /\ DeletedAt(fs, q) < now - last'.days * TicksPerDay
                   /\ q \notin last'.stuck
                THEN Gone(fs', q)
                ELSE Untouched(fs, fs', q)
       /\ last'.purged = Deleted(fs, fs')

\* what a confirmed Empty does when os.RemoveAll fails on the items in
\* last'.stuck
EmptyTolerant ==
    (/\ Called("Empty")
     /\ last'.line = TypedConfirmPhrase
     /\ last'.stuck \cap Items(fs) # {})
    => /\ \A q \in Items(fs) :
             IF q \in last'.stuck THEN Untouched(fs, fs', q) ELSE Gone(fs', q)
       /\ last'.deleted = Deleted(fs, fs')

\* C27: when os.RemoveAll fails on an item, a Purge and a confirmed Empty leave
\* that item and its sidecar, remove the other items they are to remove, and
\* count the items they removed
C27_FailuresTolerated == [][PurgeTolerant /\ EmptyTolerant]_vars

-----------------------------------------------------------------------------
(* The pruning of the trash, checked under SpecClean.                       *)

\* C28: after the cleanEmptyDirs of an Empty that removed every item, no
\* directory below the trash root is empty
C28_NoEmptyDirLeft ==
    [][(call.kind = "cleanEmptyDirs" /\ last'.op = "cleanEmptyDirs")
       => \A q \in DOMAIN fs' :
             (Below(q, TrashDir) /\ IsDir(fs', q)) => Entries(fs', q) # {}]_vars

-----------------------------------------------------------------------------
(* Properties of the steps of Move, checked under SpecMove.                 *)

\* every call of Move has returned, none with an error
AllReturned ==
    /\ call.kind = "Move"
    /\ \A i \in 1..Len(call.procs) :
          call.procs[i].pc = "returned" /\ ~call.procs[i].err

\* C23: when two calls of Move that ran at the same time on two paths have
\* returned, the entry of each is at the trash path the call returned, and its
\* sidecar is there and records the path of the call
C23_ConcurrentMovesApart ==
    (AllReturned /\ Len(call.procs) = 2)
    => \A i \in 1..2 :
          LET proc == call.procs[i] IN
          /\ Exists(fs, proc.trashPath)
          /\ fs[proc.trashPath] = call.fs0[proc.absPath]
          /\ ~GetMetadata(fs, proc.trashPath).err
          /\ GetMetadata(fs, proc.trashPath).meta.OriginalPath = proc.absPath

\* C29: when a call of Move has returned, every symbolic link of the tree it
\* was called on is in the trash as the same link
C29_LinksMovedAsLinks ==
    AllReturned
    => \A i \in 1..Len(call.procs) :
          LET proc == call.procs[i] IN
          \A q \in Tree(call.fs0, proc.absPath) :
             IsLink(call.fs0, q)
             => /\ IsLink(fs, Rebase(q, proc.absPath, proc.trashPath))
                /\ fs[Rebase(q, proc.absPath, proc.trashPath)] = call.fs0[q]

\* file q of the tree a call started on is at its place with its content
AtSource(q) == IsFile(fs, q) /\ fs[q].data = call.fs0[q].data

\* file q is in the trash of call proc with its content
AtTarget(proc, q) ==
    LET dst == Rebase(q, proc.absPath, proc.trashPath) IN
    IsFile(fs, dst) /\ fs[dst].data = call.fs0[q].data

\* C30: at every step of a call of Move, and after it returned, every file of
\* the tree it was called on is at its place or in the trash; a file is at
\* both only between its copy and its removal; and a call that returns with
\* a file left at its place returns an error
C30_CopiedBeforeRemoved ==
    (/\ call.kind = "Move"
     /\ Len(call.procs) = 1
     /\ call.procs[1].pc \notin {"Lstat", "Stat"})
    => LET proc == call.procs[1] IN
       \A q \in Tree(call.fs0, proc.absPath) :
          IsFile(call.fs0, q)
          => /\ AtSource(q) \/ AtTarget(proc, q)
             /\ (AtSource(q) /\ AtTarget(proc, q))
                => /\ proc.pc = "copy"
                   /\ Head(proc.todo) = [op |-> "Remove", src |-> q,
                                         dst |-> Rebase(q, proc.absPath,
                                                        proc.trashPath)]
             /\ (proc.pc = "returned" /\ AtSource(q)) => proc.err

\* a copy of a directory failed after its first file was copied and removed
C30_FailedPartway ==
    /\ call.kind = "Move"
    /\ Len(call.procs) = 1
    /\ call.procs[1].pc = "returned"
    /\ call.procs[1].err
    /\ AtTarget(call.procs[1], FC) /\ ~AtSource(FC)
    /\ AtSource(FD) /\ ~AtTarget(call.procs[1], FD)

-----------------------------------------------------------------------------
(* Properties of the failures of Move, checked under Spec.                  *)

\* C31: a Move whose sidecar write fails returns the trash path and no error,
\* the entry is at that path in the trash and no longer at its place
C31_SidecarFailureKeepsMove ==
    [][(Called("Move") /\ last'.warned)
       => /\ ~last'.err
          /\ last'.trashPath = MoveTarget(fs, last'.path, now)
          /\ Exists(fs', last'.trashPath)
          /\ SameEntry(fs'[last'.trashPath], fs[last'.path])
          /\ ~Exists(fs', last'.path)]_vars

\* a Move returned a trash path with the warning, and the entry is there
\* without sidecar
C31_WarnedMove ==
    /\ last.op = "Move"
    /\ last.warned /\ ~last.err
    /\ IsUserFile(fs, last.trashPath)
    /\ ~Exists(fs, last.trashPath \o MetaSuffix)

\* the parent directory of the trash path of path cannot be made
ParentTaken(f, path, t) == MkdirAll(f, Dir(MoveTarget(f, path, t))).err

\* C32: a Move of a path that does not exist, or for whose trash path the
\* parent directory cannot be made, returns an error and changes no file
C32_EarlyFailureChangesNothing ==
    [][(/\ Called("Move")
        /\ ~Exists(fs, last'.path) \/ ParentTaken(fs, last'.path, now))
       => (last'.err /\ last'.trashPath = <<>> /\ fs' = fs)]_vars

\* a Move of an existing file failed because a trashed file has the place of
\* the parent directory in the trash
C32_ParentIsTrashedFile ==
    /\ last.op = "Move"
    /\ last.err
    /\ IsUserFile(fs, last.path)
    /\ IsFile(fs, Parent(TrashPathOf(last.path)))

-----------------------------------------------------------------------------
(* The age used by "rm --safe-purge", checked under SpecTrash.              *)

\* C33: "rm --safe-purge" without --purge-days removes the items whose
\* DeletedAt is before now - cfg.RetentionDays, and only these
C33_RetentionIsDefaultAge ==
    [][(/\ Called("Purge")
        /\ "args" \in DOMAIN last'
        /\ last'.args = <<>>)
       => \A q \in Items(fs) :
             ~GetMetadata(fs, q).err
             => (Gone(fs', q)
                 <=> DeletedAt(fs, q)
                        < now - last'.cfg.RetentionDays * TicksPerDay)]_vars

-----------------------------------------------------------------------------
(* Properties of the trash after several calls of Move, checked under Spec. *)

\* C34: a Move that returns nil leaves every file of a user that is in the
\* trash, other than at the trash path that it returns, there with its content
C34_SidecarOverwritesNothing ==
    [][(Called("Move") /\ ~last'.err)
       => \A q \in DOMAIN fs :
             (/\ Below(q, TrashDir)
              /\ IsUserFile(fs, q)
              /\ q # last'.trashPath
              /\ ~Below(q, last'.trashPath))
             => (IsUserFile(fs', q) /\ fs'[q].data = fs[q].data)]_vars

\* an entry of the trash with a sidecar that GetMetadata reads
IsItem(f, q) == Below(q, TrashDir) /\ Exists(f, q) /\ ~GetMetadata(f, q).err

\* C35: no item of the trash, and so no sidecar of an item, is inside a
\* directory that is an item of the trash
C35_ItemsNotNested ==
    \A q, r \in DOMAIN fs :
       (IsItem(fs, q) /\ IsItem(fs, r)) => ~Below(q, r)

====
